---------------------------- MODULE Spec2Model ----------------------------
(***************************************************************************)
(* A model of the wireless-sensor-network simulator: the node energy and   *)
(* lifecycle model (core/node.py, utils/energy_model.py), the sink         *)
(* (core/base_station.py) and the four routing protocols (protocols/).     *)
(*                                                                         *)
(* Energy is counted in units of 1e-10 J, so that every cost of the energy *)
(* model is an integer: e_elec = 50e-9 J/bit = 500 units, e_amp = 100e-12  *)
(* J/bit/m^2 = 1 unit, e_da = e_sense = 5e-9 J/bit = 50 units.  Distances  *)
(* are carried as their squares (d2 = distance^2), which is what the       *)
(* transmit cost reads and which orders as the distance does.              *)
(*                                                                         *)
(* A step of a protocol is the code one process runs between two           *)
(* suspensions (yield).  The calls on nodes and on the base station that   *)
(* one step makes are recorded, in order, in the history variable log.     *)
(***************************************************************************)
EXTENDS Integers, Sequences, FiniteSets, TLC

\* ------------------------------------------------------------------ bounds
NumNodes == 3            \* nodes of the network, ids 1..NumNodes
EnergyStep == 2500000    \* nodes start with whole multiples of this energy
MaxTime == 600           \* simulated time after which no further step starts
MaxEvents == 2           \* event-detection draws that succeed in one run

\* ------------------------------------------------------- program constants
E_ELEC == 500            \* e_elec, units per bit
E_AMP == 1               \* e_amp, units per bit per m^2
E_DA == 50               \* e_da, units per bit
E_SENSE == 50            \* e_sense, units per bit
PacketSize == 4000       \* packet_size of the configuration

Nodes == 1..NumNodes
None == 0                \* Python's None where a node reference is expected
BS == -1                 \* the base station as the addressee of a transmit

\* ------------------------------------------------------------- energy model
calculate_tx_energy(data_size, d2) == (E_ELEC * data_size) + (E_AMP * data_size * d2)

calculate_rx_energy(data_size) == E_ELEC * data_size

calculate_sensing_energy(data_size) == E_SENSE * data_size

calculate_aggregation_energy(data_size) == E_DA * data_size

\* ---------------------------------------------------------------- the node
\* The world a step works on: w.energy, w.alive, w.log, w.data_received,
\* w.packets_received (and, inside a protocol, that protocol's own fields).

\* A debit with the sign of the cost slipped.
DebitCredits(e, cost) ==
    IF e >= cost THEN [energy |-> e + cost, alive |-> TRUE, ok |-> TRUE]
    ELSE [energy |-> 0, alive |-> FALSE, ok |-> FALSE]

\* A debit that charges a cost the node cannot pay without clamping at 0.
DebitNoClamp(e, cost) ==
    IF e >= cost
    THEN IF e - cost <= 0
         THEN [energy |-> 0, alive |-> FALSE, ok |-> TRUE]
         ELSE [energy |-> e - cost, alive |-> TRUE, ok |-> TRUE]
    ELSE [energy |-> e - cost, alive |-> FALSE, ok |-> FALSE]

\* A debit that forgets to clamp and to mark the node dead.
DebitNoDeath(e, cost) ==
    IF e >= cost THEN [energy |-> e - cost, alive |-> TRUE, ok |-> TRUE]
    ELSE [energy |-> e, alive |-> TRUE, ok |-> FALSE]

\* The body shared by transmit, receive, sense and aggregate_data once the
\* node is known to be alive: energy e, cost of the operation.
Debit(e, cost) ==
    IF e >= cost
    THEN IF e - cost <= 0
         THEN [energy |-> 0, alive |-> FALSE, ok |-> TRUE]
         ELSE [energy |-> e - cost, alive |-> TRUE, ok |-> TRUE]
    ELSE [energy |-> 0, alive |-> FALSE, ok |-> FALSE]

\* A gate that lets a dead node pay again.
GateOpen(w, n, cost) == Debit(w.energy[n], cost)

\* The dead/alive gate in front of the debit.
Gate(w, n, cost) ==
    IF ~w.alive[n]
    THEN [energy |-> w.energy[n], alive |-> FALSE, ok |-> FALSE]
    ELSE Debit(w.energy[n], cost)

\* One call of an energy-consuming operation op of node n, addressed to
\* node `to` (None when the operation has no addressee).
NodeCall(w, op, n, data_size, d2, to, cost) ==
    LET r == Gate(w, n, cost)
        entry == [op |-> op, node |-> n, size |-> data_size, d2 |-> d2,
                  to |-> to,
                  toAlive |-> IF to \in Nodes THEN w.alive[to] ELSE TRUE,
                  cost |-> cost,
                  wasAlive |-> w.alive[n], before |-> w.energy[n],
                  isAlive |-> r.alive, after |-> r.energy, ok |-> r.ok]
    IN  [w EXCEPT !.energy[n] = r.energy, !.alive[n] = r.alive,
                  !.log = Append(@, entry)]

transmit(w, n, data_size, d2, to) ==
    NodeCall(w, "transmit", n, data_size, d2, to, calculate_tx_energy(data_size, d2))

receive(w, n, data_size) ==
    NodeCall(w, "receive", n, data_size, 0, None, calculate_rx_energy(data_size))

sense(w, n, data_size) ==
    NodeCall(w, "sense", n, data_size, 0, None, calculate_sensing_energy(data_size))

aggregate_data(w, n, data_size) ==
    NodeCall(w, "aggregate_data", n, data_size, 0, None,
             calculate_aggregation_energy(data_size))

\* The value the last call returned.
Ok(w) == w.log[Len(w.log)].ok

\* ------------------------------------------------------- the base station
\* receive_data that counts the packet and drops its size.
receive_data_NoSize(w, data_size) ==
    [w EXCEPT !.packets_received = @ + 1,
              !.log = Append(@, [op |-> "receive_data", node |-> BS,
                                 size |-> data_size, d2 |-> 0, to |-> None,
                                 toAlive |-> TRUE, cost |-> 0, wasAlive |-> TRUE,
                                 before |-> 0, isAlive |-> TRUE, after |-> 0,
                                 ok |-> TRUE])]

receive_data(w, data_size) ==
    LET entry == [op |-> "receive_data", node |-> BS, size |-> data_size,
                  d2 |-> 0, to |-> None, toAlive |-> TRUE, cost |-> 0,
                  wasAlive |-> TRUE, before |-> 0, isAlive |-> TRUE,
                  after |-> 0, ok |-> TRUE]
    IN  [w EXCEPT !.data_received = @ + data_size,
                  !.packets_received = @ + 1,
                  !.log = Append(@, entry)]


\* ------------------------------------------------------------------- state
VARIABLES
    protocol,          \* protocol_type of the configuration, or "node" (see NodeSpec)
    position,          \* node id -> (x, y)
    energy,            \* node id -> SensorNode.energy
    alive,             \* node id -> SensorNode.alive
    is_cluster_head,   \* node id -> SensorNode.is_cluster_head
    cluster_head,      \* node id -> SensorNode.cluster_head (None or a node id)
    data_received,     \* BaseStation.data_received
    packets_received,  \* BaseStation.packets_received
    now,               \* env.now
    wake,              \* the time at which the protocol process resumes
    pc,                \* the suspension point the protocol process waits at
    log,               \* the calls made by the last step, in order
    calls,             \* the protocol operations the last step ran, in order
    p,                 \* LEACH.p, as the pair <<numerator, denominator>>
    current_round,     \* LEACH.current_round
    last_head,         \* node id -> the last round that elected it head, or 0
    cluster_heads,     \* LEACH.cluster_heads, in election order
    clusters,          \* LEACH.clusters: head id -> sequence of member ids
    frame,             \* LEACH: the number of steady-state frames run this round
    chain,             \* PEGASIS.chain
    leader,            \* PEGASIS.leader (None or a node id)
    round_num,         \* PEGASIS.run's round_num
    gradients,         \* DirectedDiffusion.gradients: node -> sequence of [to, weight]
    events_detected,   \* DirectedDiffusion.events_detected: sequence of [node_id, time]
    routes,            \* GEAR.routes: node -> next hop, or None
    detections,        \* the number of event-detection draws that succeeded so far
    next_sample,       \* the time at which the metrics collector samples next
    metrics,           \* the metrics record, as far as the model follows it
    observed,          \* what the samples showed and how often network_lifetime was set
    history,           \* when the periodic operations ran, and the leaders chosen
    collector_newer    \* the collector's pending event is newer than the protocol's

nodeVars == <<energy, alive, is_cluster_head, cluster_head>>
bsVars == <<data_received, packets_received>>
leachVars == <<p, current_round, last_head, cluster_heads, clusters, frame>>
pegasisVars == <<chain, leader, round_num>>
ddVars == <<gradients, events_detected>>
gearVars == <<routes>>
collectorVars == <<next_sample, metrics, observed>>
fixedVars == <<protocol, position, collectorVars, p, last_head>>
vars == <<protocol, position, nodeVars, bsVars, now, wake, pc, log, calls, detections,
          leachVars, pegasisVars, ddVars, gearVars, collectorVars, collector_newer,
          history>>

\* ---------------------------------------------------------------- geometry
BSPos == <<50, 50>>      \* base_station_pos of the configuration

D2(a, b) == (a[1] - b[1]) * (a[1] - b[1]) + (a[2] - b[2]) * (a[2] - b[2])

\* distance_to between two nodes, squared
NodeD2(a, b) == D2(position[a], position[b])

\* distance_to between a node and the base station, squared
BSD2(a) == D2(position[a], BSPos)

\* The deployments the model runs on: where the nodes lie.  Every node lies
\* on the diagonal y = x, as the base station (50, 50) and both GEAR target
\* regions do, so that every distance is a whole multiple of sqrt(2).
Layouts ==
    { <<<<75, 75>>, <<60, 60>>, <<52, 52>>, <<35, 35>>, <<44, 44>>>>,
      <<<<30, 30>>, <<45, 45>>, <<70, 70>>, <<58, 58>>, <<80, 80>>>> }

\* A deployment off the diagonal, with its second and third node equally far
\* from the first, which is the furthest from the base station.  GEAR does
\* not run on it.
TieLayouts ==
    { <<<<50, 90>>, <<40, 80>>, <<60, 80>>, <<50, 70>>, <<50, 62>>>> }

\* A deployment in the plane for GEAR, with energies in EnergySteps: the
\* first two nodes lie in the first target region, 25 apart; the third is the
\* nearest to the base station, in range of the first (29) and not of the
\* second (36), and starts with little; the others are out of every range.
PlaneLayout == <<<<65, 82>>, <<80, 62>>, <<44, 62>>, <<100, 0>>, <<0, 100>>>>
PlaneProfile == <<10, 10, 1, 10, 10>>

\* The energies the nodes start with (initial_energy), in EnergySteps.  The
\* default of 1.0 J is 10^10 units, more than the model's integers hold and
\* more than a node spends in MaxTime; the nodes start with less, so that
\* they die within the run.
Profiles ==
    { <<1, 1, 1, 1, 1>>, <<4, 4, 4, 4, 4>>, <<4, 1, 4, 1, 4>>,
      <<1, 4, 4, 4, 1>>, <<4, 4, 1, 4, 4>>, <<6, 10, 3, 6, 10>>,
      <<10, 10, 1, 10, 10>>, <<10, 8, 6, 10, 10>> }

StartEnergy(k) == k * EnergyStep

\* The most energy a node starts with
HighEnergy == StartEnergy(10)

\* An initial_energy of 1e-5 J, the same for every node: less than a cluster
\* head needs to announce itself to two nodes.  LEACH runs on it as well.
LowEnergy == 100000

\* The world of a step, from the state it starts in.
World ==
    [energy |-> energy, alive |-> alive, log |-> <<>>, calls |-> <<>>,
     data_received |-> data_received, packets_received |-> packets_received,
     is_cluster_head |-> is_cluster_head, cluster_head |-> cluster_head,
     cluster_heads |-> cluster_heads, clusters |-> clusters,
     chain |-> chain, leader |-> leader,
     gradients |-> gradients, events_detected |-> events_detected,
     routes |-> routes, crashed |-> FALSE]

\* The world w once the operation name has started: the call is recorded.
Ran(w, name) == [w EXCEPT !.calls = Append(@, [op |-> name])]

\* ------------------------------------------------------------------- LEACH
P_NUM == 1               \* p = P_NUM / P_DEN = 0.05
P_DEN == 20
ROUND_TIME == 100        \* round_time
NUM_FRAMES == 5          \* num_frames

\* The values of p the model runs LEACH with: the default, one more whose
\* inverse is a whole number, and one whose inverse is not.
PValues == {<<P_NUM, P_DEN>>, <<1, 2>>, <<3, 5>>}

\* int(1/p)
RoundsPerCycle == p[2] \div p[1]

\* t = p / (1 - p * (current_round % int(1/p))) as the fraction
\* ThresholdNum(r) / ThresholdDen(r)
ThresholdNum(r) == p[1]

ThresholdDen(r) == p[2] - p[1] * (r % RoundsPerCycle)

\* The sets of nodes whose draw random.random() (in [0, 1)) may fall below t.
ElectionDraws(r) ==
    IF ThresholdNum(r) >= ThresholdDen(r) THEN {Nodes}
    ELSE IF ThresholdNum(r) <= 0 THEN {{}}
    ELSE SUBSET Nodes

\* setup_phase, line 58: the threshold of round r, recorded as the fraction
\* num / den
ThresholdRecorded(w, r) ==
    IF \E n \in Nodes : w.alive[n]
    THEN [w EXCEPT !.calls = Append(@, [op |-> "threshold", round |-> r,
                                        num |-> ThresholdNum(r),
                                        den |-> ThresholdDen(r)])]
    ELSE w

\* A reset of the two collections that leaves the nodes' flags and
\* references as they are.
LeachResetLists(w) ==
    [w EXCEPT !.cluster_heads = <<>>,
              !.clusters = [n \in Nodes |-> <<>>]]

\* setup_phase, lines 43-50: reset
LeachReset(w) ==
    [w EXCEPT !.cluster_heads = <<>>,
              !.clusters = [n \in Nodes |-> <<>>],
              !.is_cluster_head = [n \in Nodes |-> FALSE],
              !.cluster_head = [n \in Nodes |-> None]]

\* setup_phase, lines 53-61: elect; draws are the nodes whose draw is below t
RECURSIVE LeachElect(_, _, _)
LeachElect(w, draws, i) ==
    IF i > NumNodes THEN w
    ELSE IF w.alive[i] /\ i \in draws
         THEN LeachElect([w EXCEPT !.is_cluster_head[i] = TRUE,
                                   !.cluster_heads = Append(@, i)], draws, i + 1)
         ELSE LeachElect(w, draws, i + 1)

\* setup_phase, lines 66-69: one head's broadcast
RECURSIVE LeachBroadcastFrom(_, _, _)
LeachBroadcastFrom(w, ch, i) ==
    IF i > NumNodes THEN w
    ELSE LeachBroadcastFrom(
             IF i # ch /\ w.alive[i] THEN transmit(w, ch, 50, NodeD2(ch, i), i) ELSE w,
             ch, i + 1)

\* setup_phase, lines 64-69
RECURSIVE LeachBroadcast(_, _)
LeachBroadcast(w, k) ==
    IF k > Len(w.cluster_heads) THEN w
    ELSE LeachBroadcast(LeachBroadcastFrom(w, w.cluster_heads[k], 1), k + 1)

\* setup_phase, lines 77-83: the nearest cluster head, first on ties
RECURSIVE NearestCH(_, _, _, _)
NearestCH(w, node, k, nearest_ch) ==
    IF k > Len(w.cluster_heads) THEN nearest_ch
    ELSE LET ch == w.cluster_heads[k]
         IN  IF nearest_ch = None \/ NodeD2(node, ch) < NodeD2(node, nearest_ch)
             THEN NearestCH(w, node, k + 1, ch)
             ELSE NearestCH(w, node, k + 1, nearest_ch)

\* setup_phase, lines 85-91: a join that pays although no head was found
LeachJoinOneAlways(w, node) ==
    LET nearest_ch == NearestCH(w, node, 1, None)
    IN  IF nearest_ch = None THEN transmit(w, node, 50, 0, None)
        ELSE receive(transmit([w EXCEPT !.cluster_head[node] = nearest_ch,
                                        !.clusters[nearest_ch] = Append(@, node)],
                              node, 50, NodeD2(node, nearest_ch), nearest_ch),
                     nearest_ch, 50)

\* setup_phase, lines 76-91: one node joins
LeachJoinOne(w, node) ==
    LET nearest_ch == NearestCH(w, node, 1, None)
    IN  IF nearest_ch = None THEN w
        ELSE receive(transmit([w EXCEPT !.cluster_head[node] = nearest_ch,
                                        !.clusters[nearest_ch] = Append(@, node)],
                              node, 50, NodeD2(node, nearest_ch), nearest_ch),
                     nearest_ch, 50)

\* setup_phase, lines 72-91
RECURSIVE LeachJoin(_, _)
LeachJoin(w, i) ==
    IF i > NumNodes THEN w
    ELSE IF ~w.alive[i] \/ w.is_cluster_head[i] THEN LeachJoin(w, i + 1)
         ELSE LeachJoin(LeachJoinOne(w, i), i + 1)

\* setup_phase, lines 100-103: one head's schedule messages
RECURSIVE LeachScheduleTo(_, _, _)
LeachScheduleTo(w, ch, j) ==
    IF j > Len(w.clusters[ch]) THEN w
    ELSE LET node == w.clusters[ch][j]
         IN  LeachScheduleTo(
                 receive(transmit(w, ch, 100, NodeD2(ch, node), node), node, 100),
                 ch, j + 1)

\* setup_phase, lines 94-103
RECURSIVE LeachSchedule(_, _)
LeachSchedule(w, k) ==
    IF k > Len(w.cluster_heads) THEN w
    ELSE LET ch == w.cluster_heads[k]
         IN  LeachSchedule(IF w.alive[ch] THEN LeachScheduleTo(w, ch, 1) ELSE w, k + 1)

\* setup_phase up to its yield
setup_phase(w, draws) ==
    LeachSchedule(LeachJoin(LeachBroadcast(LeachElect(LeachReset(w), draws, 1), 1), 1), 1)

\* steady_state_phase, lines 119-131: the members' data; the result is
\* [w, data_collected]
RECURSIVE LeachCollect(_, _, _, _)
LeachCollect(w, ch, j, data_collected) ==
    IF j > Len(w.clusters[ch]) THEN [w |-> w, data_collected |-> data_collected]
    ELSE LET node == w.clusters[ch][j]
             w1 == sense(w, node, PacketSize)
             w2 == transmit(w1, node, PacketSize, NodeD2(node, ch), ch)
             w3 == receive(w2, ch, PacketSize)
         IN  IF ~w.alive[node] THEN LeachCollect(w, ch, j + 1, data_collected)
             ELSE IF ~Ok(w1) THEN LeachCollect(w1, ch, j + 1, data_collected)
             ELSE IF ~Ok(w2) THEN LeachCollect(w2, ch, j + 1, data_collected)
             ELSE IF ~Ok(w3) THEN LeachCollect(w3, ch, j + 1, data_collected)
             ELSE LeachCollect(w3, ch, j + 1, data_collected + PacketSize)

\* An aggregation that reduces nothing.
AggregatedNothing(data_size) == data_size

\* data_size * 0.7
Aggregated(data_size) == (data_size * 7) \div 10

\* steady_state_phase, lines 134-140
LeachForward(w, ch, data_collected) ==
    LET w1 == aggregate_data(w, ch, data_collected)
        w2 == transmit(w1, ch, Aggregated(data_collected), BSD2(ch), BS)
    IN  IF data_collected > 0
        THEN IF Ok(w1)
             THEN IF Ok(w2) THEN receive_data(w2, Aggregated(data_collected)) ELSE w2
             ELSE w1
        ELSE w

\* The turn of the live head ch in a frame, from world w0 to world w1,
\* recorded: the calls it made are log[first..last], and the energy of the
\* head before and after.
TurnRecorded(w0, ch, w1) ==
    [w1 EXCEPT !.calls = Append(@, [op |-> "head_turn", ch |-> ch,
                                    first |-> Len(w0.log) + 1, last |-> Len(w1.log),
                                    before |-> w0.energy[ch],
                                    after |-> w1.energy[ch]])]

\* steady_state_phase, lines 114-140: one frame up to its yield
RECURSIVE LeachFrameFrom(_, _)
LeachFrameFrom(w, k) ==
    IF k > Len(w.cluster_heads) THEN w
    ELSE LET ch == w.cluster_heads[k]
             c == LeachCollect(w, ch, 1, 0)
         IN  IF ~w.alive[ch] THEN LeachFrameFrom(w, k + 1)
             ELSE LeachFrameFrom(
                      TurnRecorded(w, ch, LeachForward(c.w, ch, c.data_collected)),
                      k + 1)


\* ----------------------------------------------------------------- PEGASIS
CHAIN_RECONSTRUCTION_INTERVAL == 500     \* chain_reconstruction_interval

\* The live nodes, in the order of self.nodes
RECURSIVE AliveFrom(_, _)
AliveFrom(w, i) ==
    IF i > NumNodes THEN <<>>
    ELSE IF w.alive[i] THEN <<i>> \o AliveFrom(w, i + 1) ELSE AliveFrom(w, i + 1)

\* construct_chain, lines 53-60: the first node furthest from the base station
RECURSIVE FurthestFromBS(_, _, _)
FurthestFromBS(alive_nodes, k, start_node) ==
    IF k > Len(alive_nodes) THEN start_node
    ELSE IF start_node = None \/ BSD2(alive_nodes[k]) > BSD2(start_node)
         THEN FurthestFromBS(alive_nodes, k + 1, alive_nodes[k])
         ELSE FurthestFromBS(alive_nodes, k + 1, start_node)

\* A greedy loop that appends any remaining node, not a nearest one.
RECURSIVE GreedyChainsAnyNode(_, _)
GreedyChainsAnyNode(c, remaining_nodes) ==
    IF remaining_nodes = {} THEN {c}
    ELSE UNION {GreedyChainsAnyNode(Append(c, n), remaining_nodes \ {n}) :
                   n \in remaining_nodes}

\* construct_chain, lines 66-81: the chains the greedy loop can build.  The
\* loop walks a Python set, whose order is not specified: of several nodes
\* at the same least distance any one may be met first and taken.
RECURSIVE GreedyChains(_, _)
GreedyChains(c, remaining_nodes) ==
    IF remaining_nodes = {} THEN {c}
    ELSE LET last_node == c[Len(c)]
             nearest == {n \in remaining_nodes :
                            \A m \in remaining_nodes :
                                NodeD2(last_node, n) <= NodeD2(last_node, m)}
         IN  UNION {GreedyChains(Append(c, n), remaining_nodes \ {n}) : n \in nearest}

\* construct_chain: the chains it can leave in self.chain
ConstructedChains(w) ==
    LET alive_nodes == AliveFrom(w, 1)
        start_node == FurthestFromBS(alive_nodes, 1, None)
    IN  IF alive_nodes = <<>> THEN {<<>>}
        ELSE GreedyChains(<<start_node>>, {n \in Nodes : w.alive[n]} \ {start_node})

\* construct_chain with c the chain it built; the call is recorded with the
\* nodes that were alive when it ran and the chains it could have built
construct_chain(w, c) ==
    LET entry == [op |-> "construct_chain",
                  alive |-> {n \in Nodes : w.alive[n]}, chain |-> c,
                  outcomes |-> ConstructedChains(w)]
        w1 == [w EXCEPT !.calls = Append(@, entry)]
    IN  IF c = <<>> THEN [w1 EXCEPT !.chain = <<>>, !.leader = None]
        ELSE [w1 EXCEPT !.chain = c]

\* chain.index(leader)
RECURSIVE IndexOf(_, _, _)
IndexOf(s, x, k) ==
    IF k > Len(s) THEN 0 ELSE IF s[k] = x THEN k ELSE IndexOf(s, x, k + 1)

\* gather_data, lines 102-122 (dir = -1, toward the start of the chain) and
\* lines 127-147 (dir = 1, toward its end); the result is [w, data_size]
RECURSIVE PegasisSweep(_, _, _, _)
PegasisSweep(w, current_idx, dir, data_size) ==
    IF current_idx < 1 \/ current_idx > Len(w.chain)
    THEN [w |-> w, data_size |-> data_size]
    ELSE LET current == w.chain[current_idx]
             next_node == w.chain[current_idx - dir]
             w1 == sense(w, current, PacketSize)
             w2 == transmit(w1, current, PacketSize, NodeD2(current, next_node), next_node)
             w3 == receive(w2, next_node, PacketSize)
         IN  IF ~w.alive[current] \/ ~w.alive[next_node]
             THEN [w |-> w, data_size |-> data_size]
             ELSE IF ~Ok(w1) THEN PegasisSweep(w1, current_idx + dir, dir, data_size)
             ELSE IF ~Ok(w2) THEN [w |-> w2, data_size |-> data_size + PacketSize]
             ELSE IF ~Ok(w3) THEN [w |-> w3, data_size |-> data_size + PacketSize]
             ELSE PegasisSweep(w3, current_idx + dir, dir, data_size + PacketSize)

\* A leader whose packet reaches the base station whether or not its
\* transmit succeeded.
PegasisDeliverUnchecked(w, data_size) ==
    LET w1 == aggregate_data(w, w.leader, data_size)
        w2 == transmit(w1, w.leader, Aggregated(data_size), BSD2(w.leader), BS)
    IN  IF data_size > 0 /\ w.alive[w.leader]
        THEN IF Ok(w1) THEN receive_data(w2, Aggregated(data_size)) ELSE w1
        ELSE w

\* A leader that sends a packet although no data was gathered.
PegasisDeliverEmpty(w, data_size) ==
    LET w1 == aggregate_data(w, w.leader, data_size)
        w2 == transmit(w1, w.leader, Aggregated(data_size), BSD2(w.leader), BS)
    IN  IF w.alive[w.leader]
        THEN IF Ok(w1)
             THEN IF Ok(w2) THEN receive_data(w2, Aggregated(data_size)) ELSE w2
             ELSE w1
        ELSE w

\* gather_data, lines 150-157: the leader aggregates and sends
PegasisDeliver(w, data_size) ==
    LET w1 == aggregate_data(w, w.leader, data_size)
        w2 == transmit(w1, w.leader, Aggregated(data_size), BSD2(w.leader), BS)
    IN  IF data_size > 0 /\ w.alive[w.leader]
        THEN IF Ok(w1)
             THEN IF Ok(w2) THEN receive_data(w2, Aggregated(data_size)) ELSE w2
             ELSE w1
        ELSE w

\* The world w1 the first sweep of a gather_data leaves, with the call
\* recorded: the chain, the position of the leader in it, the nodes alive in
\* w0, where gather_data started, and the number of calls the first sweep
\* made.
GatherRecorded(w0, leader_idx, w1) ==
    [w1 EXCEPT !.calls = Append(@, [op |-> "gather_data", chain |-> w0.chain,
                                    leader_idx |-> leader_idx,
                                    alive |-> {n \in Nodes : w0.alive[n]},
                                    first_sweep |-> Len(w1.log)])]

\* gather_data up to its yield env.timeout(30)
gather_data(w) ==
    LET leader_idx == IndexOf(w.chain, w.leader, 1)
        first == PegasisSweep(w, leader_idx - 1, -1, 0)
        second == PegasisSweep(GatherRecorded(w, leader_idx, first.w),
                               leader_idx + 1, 1, first.data_size)
    IN  PegasisDeliver(second.w, second.data_size)

\* The choice of the leader, recorded with the round and the chain
LeaderSelected(w, r, leader_node) ==
    [w EXCEPT !.leader = leader_node,
              !.calls = Append(@, [op |-> "select_leader", round |-> r,
                                   chain |-> w.chain, leader |-> leader_node])]

\* A selection that takes the round number modulo 2.
SelectLeaderOfTwo(w, r) ==
    IF w.chain # <<>> THEN LeaderSelected(w, r, w.chain[(r % 2) + 1]) ELSE w

\* PEGASIS.run, lines 30-32: the leader of round r
SelectLeader(w, r) ==
    IF w.chain # <<>> THEN LeaderSelected(w, r, w.chain[(r % Len(w.chain)) + 1]) ELSE w

\* PEGASIS.run, line 35: whether the round gathers
Gathers(w) == w.chain # <<>> /\ w.leader # None /\ w.alive[w.leader]

\* PEGASIS.run, lines 39-40: the worlds the periodic reconstruction at
\* time t can leave
Reconstructed(w, t) ==
    IF t % CHAIN_RECONSTRUCTION_INTERVAL = 0
    THEN {construct_chain(w, c) : c \in ConstructedChains(w)}
    ELSE {w}

\* ------------------------------------------------------- Directed Diffusion
COMM_RANGE == 30                  \* comm_range of the configuration
BS_RANGE == 20                    \* the range within which a node reaches the sink
DD_INTEREST_INTERVAL == 200       \* interest_interval
REINFORCEMENT_INTERVAL == 50      \* reinforcement_interval
EVENT_EXPIRY == 50                \* the age after which an event expires

\* node.neighbors: the other nodes within the communication range, in the
\* order of self.nodes
RECURSIVE NeighborsFrom(_, _)
NeighborsFrom(n, i) ==
    IF i > NumNodes THEN <<>>
    ELSE IF i # n /\ NodeD2(n, i) <= COMM_RANGE * COMM_RANGE
         THEN <<i>> \o NeighborsFrom(n, i + 1)
         ELSE NeighborsFrom(n, i + 1)

Neighbors(n) == NeighborsFrom(n, 1)

RECURSIVE GCD(_, _)
GCD(a, b) == IF b = 0 THEN a ELSE GCD(b, a % b)

\* The fraction num/den in lowest terms
Frac(num, den) ==
    LET g == GCD(num, den) IN IF g = 0 THEN [num |-> 0, den |-> 1]
                              ELSE [num |-> num \div g, den |-> den \div g]

\* d[key] = value on a dict kept as a sequence of entries in insertion order
RECURSIVE DictSet(_, _, _, _)
DictSet(d, key, value, k) ==
    IF k > Len(d) THEN Append(d, [to |-> key, weight |-> value])
    ELSE IF d[k].to = key THEN [d EXCEPT ![k].weight = value]
         ELSE DictSet(d, key, value, k + 1)

\* propagate_interest, lines 54-56
RECURSIVE ResetGradients(_, _)
ResetGradients(w, i) ==
    IF i > NumNodes THEN w
    ELSE ResetGradients(IF w.alive[i] THEN [w EXCEPT !.gradients[i] = <<>>] ELSE w, i + 1)

\* propagate_interest, lines 63-68: the queue of the live nodes in range of
\* the base station, each with hop count 1
RECURSIVE InterestSeeds(_, _)
InterestSeeds(w, i) ==
    IF i > NumNodes THEN <<>>
    ELSE IF w.alive[i] /\ BSD2(i) <= BS_RANGE * BS_RANGE
         THEN <<[node |-> i, hop_count |-> 1]>> \o InterestSeeds(w, i + 1)
         ELSE InterestSeeds(w, i + 1)

\* propagate_interest, lines 78-89: the current node pushes the interest on;
\* s is [w, queue, visited]
RECURSIVE InterestPush(_, _, _, _)
InterestPush(s, current_node, hop_count, k) ==
    IF k > Len(Neighbors(current_node)) THEN s
    ELSE LET neighbor == Neighbors(current_node)[k]
             w1 == [s.w EXCEPT !.gradients[neighbor] =
                        DictSet(@, current_node, Frac(1, hop_count), 1)]
             w2 == transmit(w1, current_node, 100, NodeD2(current_node, neighbor),
                            neighbor)
         IN  IF s.w.alive[neighbor] /\ neighbor \notin s.visited
             THEN InterestPush([w |-> w2,
                                queue |-> Append(s.queue, [node |-> neighbor,
                                                           hop_count |-> hop_count + 1]),
                                visited |-> s.visited \cup {neighbor}],
                               current_node, hop_count, k + 1)
             ELSE InterestPush(s, current_node, hop_count, k + 1)

\* propagate_interest, lines 71-89: the flood
RECURSIVE InterestFlood(_)
InterestFlood(s) ==
    IF s.queue = <<>> THEN s.w
    ELSE LET head == Head(s.queue)
             s1 == [s EXCEPT !.w = receive(s.w, head.node, 100), !.queue = Tail(@)]
         IN  InterestFlood(InterestPush(s1, head.node, head.hop_count, 1))

\* DirectedDiffusion.propagate_interest up to its yield
dd_propagate_interest(w) ==
    LET w0 == ResetGradients(Ran(w, "propagate_interest"), 1)
        seeds == InterestSeeds(w0, 1)
    IN  InterestFlood([w |-> w0, queue |-> seeds,
                       visited |-> {seeds[k].node : k \in 1..Len(seeds)}])

\* events_detected[node_id] = t on the dict kept in insertion order
RECURSIVE EventSet(_, _, _, _)
EventSet(d, node_id, t, k) ==
    IF k > Len(d) THEN Append(d, [node_id |-> node_id, time |-> t])
    ELSE IF d[k].node_id = node_id THEN [d EXCEPT ![k].time = t]
         ELSE EventSet(d, node_id, t, k + 1)

\* detect_events up to its yield, at time t; draws are the nodes whose draw
\* random.random() fell below 0.01
RECURSIVE detect_events(_, _, _, _)
detect_events(w, draws, t, i) ==
    IF i > NumNodes THEN w
    ELSE IF w.alive[i] /\ i \in draws
         THEN detect_events(
                  sense([w EXCEPT !.events_detected = EventSet(@, i, t, 1)],
                        i, PacketSize),
                  draws, t, i + 1)
         ELSE detect_events(w, draws, t, i + 1)

\* deliver_data, lines 125-131: the live unvisited neighbour of the greatest
\* gradient above 0, the first on ties
RECURSIVE BestNextHop(_, _, _, _, _)
BestNextHop(w, g, visited, k, best) ==
    IF k > Len(g) THEN IF best = 0 THEN None ELSE g[best].to
    ELSE IF /\ w.alive[g[k].to]
            /\ g[k].to \notin visited
            /\ IF best = 0 THEN g[k].weight.num > 0
               ELSE g[k].weight.num * g[best].weight.den
                        > g[best].weight.num * g[k].weight.den
         THEN BestNextHop(w, g, visited, k + 1, k)
         ELSE BestNextHop(w, g, visited, k + 1, best)

\* deliver_data, lines 120-157: one event's data hops along the gradients
RECURSIVE DDForward(_, _, _)
DDForward(w, current_node, visited) ==
    LET next_hop == BestNextHop(w, w.gradients[current_node], visited, 1, 0)
        w1 == transmit(w, current_node, PacketSize, NodeD2(current_node, next_hop),
                       next_hop)
        w2 == receive(w1, next_hop, PacketSize)
        w3 == transmit(w2, next_hop, PacketSize, BSD2(next_hop), BS)
    IN  IF next_hop = None THEN w
        ELSE IF ~Ok(w1) THEN w1
        ELSE IF ~Ok(w2) THEN w2
        ELSE IF BSD2(next_hop) <= BS_RANGE * BS_RANGE
             THEN IF Ok(w3) THEN receive_data(w3, PacketSize) ELSE w3
             ELSE DDForward(w2, next_hop, visited \cup {next_hop})

\* del d[node_id]
DictDel(d, node_id) == SelectSeq(d, LAMBDA e : e.node_id # node_id)

\* An expiry test that never finds an event too old.
ExpiredNever(t, event_time) == FALSE

\* deliver_data, line 106: the event detected at event_time is too old at t
Expired(t, event_time) == t - event_time > EVENT_EXPIRY

\* deliver_data up to its yield, at time t; events is the list copied from
\* events_detected when the loop starts.  What the loop does with each event
\* is recorded: whether its entry was in events_detected, and whether it was
\* deleted as expired, skipped for its dead node, or forwarded.
RECURSIVE deliver_data(_, _, _, _)
deliver_data(w, events, t, k) ==
    IF k > Len(events) THEN w
    ELSE LET node_id == events[k].node_id
             outcome == IF Expired(t, events[k].time) THEN "expired"
                        ELSE IF ~w.alive[node_id] THEN "skipped"
                        ELSE "forwarded"
             entry == [op |-> "deliver_data", node_id |-> node_id,
                       time |-> events[k].time, at |-> t, outcome |-> outcome,
                       present |-> \E j \in 1..Len(w.events_detected) :
                                      w.events_detected[j] = events[k]]
             w0 == [w EXCEPT !.calls = Append(@, entry)]
         IN  IF outcome = "expired"
             THEN deliver_data([w0 EXCEPT !.events_detected = DictDel(@, node_id)],
                               events, t, k + 1)
             ELSE IF outcome = "skipped" THEN deliver_data(w0, events, t, k + 1)
             ELSE deliver_data(DDForward(w0, node_id, {node_id}), events, t, k + 1)

\* sum(self.gradients[node].values()) as a fraction
RECURSIVE GradientSum(_, _)
GradientSum(g, k) ==
    IF k > Len(g) THEN [num |-> 0, den |-> 1]
    ELSE LET rest == GradientSum(g, k + 1)
         IN  Frac(g[k].weight.num * rest.den + rest.num * g[k].weight.den,
                  g[k].weight.den * rest.den)

\* A total that is 1 whatever the gradients are.
GradientTotalOne(sum) == [num |-> 1, den |-> 1]

\* reinforce_paths, line 170: total = sum(...) or 1
GradientTotal(sum) == IF sum.num = 0 THEN [num |-> 1, den |-> 1] ELSE sum

\* reinforce_paths, lines 171-178: one node's gradients, total their sum or 1
RECURSIVE ReinforceNode(_, _, _, _)
ReinforceNode(w, node, total, k) ==
    IF k > Len(w.gradients[node]) THEN w
    ELSE LET neighbor == w.gradients[node][k].to
             g == w.gradients[node][k].weight
             w1 == [w EXCEPT !.gradients[node][k].weight =
                                 Frac(g.num * total.den, g.den * total.num)]
         IN  ReinforceNode(
                 IF w1.alive[node] /\ w1.alive[neighbor]
                 THEN receive(transmit(w1, node, 50, NodeD2(node, neighbor), neighbor),
                              neighbor, 50)
                 ELSE w1,
                 node, total, k + 1)

\* reinforce_paths up to its yield
RECURSIVE reinforce_paths(_, _)
reinforce_paths(w, i) ==
    IF i > NumNodes THEN w
    ELSE IF ~w.alive[i] THEN reinforce_paths(w, i + 1)
         ELSE reinforce_paths(
                  ReinforceNode(w, i, GradientTotal(GradientSum(w.gradients[i], 1)), 1),
                  i + 1)

\* DirectedDiffusion.run, lines 42-49: what follows the suspension point
\* label once the wait is over at time t: [w, label, delay]
DDAfter(w, label, t) ==
    IF label = "deliver_data" /\ t % REINFORCEMENT_INTERVAL = 0
    THEN [w |-> reinforce_paths(Ran(w, "reinforce_paths"), 1), label |-> "reinforce_paths", delay |-> 10]
    ELSE IF label \in {"deliver_data", "reinforce_paths"} /\ t % DD_INTEREST_INTERVAL = 0
    THEN [w |-> dd_propagate_interest(w), label |-> "repropagate_interest", delay |-> 20]
    ELSE [w |-> w, label |-> "idle", delay |-> 10]

\* -------------------------------------------------------------------- GEAR
GEAR_INTEREST_INTERVAL == 200     \* interest_interval
WIDTH == 100                      \* width of the configuration
HEIGHT == 100                     \* height of the configuration

\* GEAR.setup: (center_x, center_y, radius)
target_regions ==
    << <<(WIDTH * 3) \div 4, (HEIGHT * 3) \div 4, 15>>,
       <<WIDTH \div 4, HEIGHT \div 4, 15>> >>

\* node_distance_to_region <= radius
InRegion(n, region) ==
    D2(position[n], <<region[1], region[2]>>) <= region[3] * region[3]

\* The square of the unit in which the distances of the deployment are whole
\* numbers: 2 where every node lies on the diagonal, 1 on PlaneLayout.
DistUnit2 == IF \A n \in Nodes : position[n][1] = position[n][2] THEN 2 ELSE 1

\* A distance in that unit, from its square.
UnitDist(d2) == CHOOSE k \in 0..(WIDTH + HEIGHT) : DistUnit2 * k * k = d2

\* discover_route, lines 85-94: the first live node closest to start_pos
RECURSIVE ClosestAlive(_, _, _, _)
ClosestAlive(w, start_pos, i, start_node) ==
    IF i > NumNodes THEN start_node
    ELSE IF /\ w.alive[i]
            /\ \/ start_node = None
               \/ D2(position[i], start_pos) < D2(position[start_node], start_pos)
         THEN ClosestAlive(w, start_pos, i + 1, i)
         ELSE ClosestAlive(w, start_pos, i + 1, start_node)

\* discover_route, lines 121-131: cost = progress * energy_factor, in units
\* of sqrt(2) * 1e-10
RouteCost(w, current, neighbor, target_node) ==
    (UnitDist(NodeD2(current, target_node)) - UnitDist(NodeD2(neighbor, target_node)))
        * w.energy[neighbor]

\* discover_route, lines 117-133: the live unvisited neighbours with their cost
RECURSIVE Candidates(_, _, _, _, _)
Candidates(w, current, target_node, visited, k) ==
    IF k > Len(Neighbors(current)) THEN <<>>
    ELSE LET neighbor == Neighbors(current)[k]
             rest == Candidates(w, current, target_node, visited, k + 1)
         IN  IF w.alive[neighbor] /\ neighbor \notin visited
             THEN <<[node |-> neighbor,
                     cost |-> RouteCost(w, current, neighbor, target_node)]>> \o rest
             ELSE rest

\* lines 136: insert e into a list sorted by cost, highest first, behind the
\* entries of the same cost (the sort is stable)
RECURSIVE InsertByCost(_, _)
InsertByCost(sorted, e) ==
    IF sorted = <<>> THEN <<e>>
    ELSE IF Head(sorted).cost >= e.cost
         THEN <<Head(sorted)>> \o InsertByCost(Tail(sorted), e)
         ELSE <<e>> \o sorted

\* neighbors.sort(key=cost, reverse=True)
RECURSIVE SortByCost(_, _, _)
SortByCost(neighbors, k, sorted) ==
    IF k > Len(neighbors) THEN sorted
    ELSE SortByCost(neighbors, k + 1, InsertByCost(sorted, neighbors[k]))

\* discover_route, lines 139-147: enqueue the sorted neighbours and pay for
\* the discovery messages; s is [w, queue, visited, prev]
RECURSIVE RouteExpand(_, _, _, _)
RouteExpand(s, current, neighbors, k) ==
    IF k > Len(neighbors) THEN s
    ELSE LET neighbor == neighbors[k].node
         IN  RouteExpand(
                 [w |-> receive(transmit(s.w, current, 50, NodeD2(current, neighbor),
                                         neighbor),
                                neighbor, 50),
                  queue |-> Append(s.queue, neighbor),
                  visited |-> s.visited \cup {neighbor},
                  prev |-> [s.prev EXCEPT ![neighbor] = current]],
                 current, neighbors, k + 1)

\* A path that jumps from start_node to current.
PathToDirect(prev, start_node, current) ==
    IF current = start_node THEN <<current>> ELSE <<start_node, current>>

\* discover_route, lines 108-114: the path from start_node to current
RECURSIVE PathTo(_, _, _)
PathTo(prev, start_node, current) ==
    IF current = start_node THEN <<current>>
    ELSE Append(PathTo(prev, start_node, prev[current]), current)

\* discover_route, lines 103-149: the search; the result is [w, route],
\* route <<>> standing for None
RECURSIVE RouteSearch(_, _, _)
RouteSearch(s, start_node, target_node) ==
    IF s.queue = <<>> THEN [w |-> s.w, route |-> <<>>]
    ELSE LET current == Head(s.queue)
             s1 == [s EXCEPT !.queue = Tail(@)]
             neighbors == SortByCost(
                              Candidates(s.w, current, target_node, s.visited, 1),
                              1, <<>>)
         IN  IF target_node \notin Nodes
             THEN [w |-> [s.w EXCEPT !.crashed = TRUE], route |-> <<>>]
             ELSE IF current = target_node
             THEN [w |-> s.w, route |-> PathTo(s.prev, start_node, current)]
             ELSE RouteSearch(RouteExpand(s1, current, neighbors, 1),
                              start_node, target_node)

\* The result r of discover_route, with the call added to the record of the
\* step: what it was called with and what it returned.
RouteRecorded(r, call) ==
    [w |-> [r.w EXCEPT !.calls = Append(@, [op |-> call.op,
                                            start_pos |-> call.start_pos,
                                            target |-> call.target,
                                            alive |-> call.alive,
                                            route |-> r.route,
                                            crashed |-> r.w.crashed])],
     route |-> r.route]

\* discover_route(start_pos, target_node).  target_node is a node id, or
\* whatever else the caller passes: line 106 reads target_node.id, which
\* raises AttributeError when the argument is not a node.
\* The call is recorded with the nodes that were alive when it started.
discover_route(w, start_pos, target_node) ==
    LET start_node == ClosestAlive(w, start_pos, 1, None)
    IN  RouteRecorded(
            IF start_node = None THEN [w |-> w, route |-> <<>>]
            ELSE RouteSearch([w |-> w, queue |-> <<start_node>>,
                              visited |-> {start_node},
                              prev |-> [n \in Nodes |-> None]],
                             start_node, target_node),
            [op |-> "discover_route", start_pos |-> start_pos,
             target |-> target_node, alive |-> {n \in Nodes : w.alive[n]}])

\* propagate_interest, lines 60-65: store the reverse route; k walks
\* reversed(route[:-1])
RECURSIVE StoreRoute(_, _, _, _)
StoreRoute(w, route, k, current) ==
    IF k < 1 THEN w
    ELSE StoreRoute([w EXCEPT !.routes[current] = route[k]], route, k - 1, route[k])

\* propagate_interest, lines 47-65: the nodes of one region
RECURSIVE GearInterestRegion(_, _, _)
GearInterestRegion(w, region, i) ==
    IF i > NumNodes \/ w.crashed THEN w
    ELSE IF ~w.alive[i] \/ ~InRegion(i, region) THEN GearInterestRegion(w, region, i + 1)
         ELSE LET r == discover_route(w, BSPos, i)
              IN  GearInterestRegion(
                      IF r.route # <<>>
                      THEN StoreRoute(r.w, r.route, Len(r.route) - 1, i)
                      ELSE r.w,
                      region, i + 1)

\* GEAR.propagate_interest up to its yield
RECURSIVE gear_propagate_interest(_, _)
gear_propagate_interest(w, r) ==
    IF r > Len(target_regions) THEN w
    ELSE gear_propagate_interest(GearInterestRegion(w, target_regions[r], 1), r + 1)

\* detect_and_forward, line 178: the repair of a route whose next hop died.
\* The target it passes is self.base_station.position, a tuple and not a
\* node; BS stands for it.
GearRepair(w, current) == discover_route(w, position[current], BS)

\* detect_and_forward, lines 173-201: the data of one event hops along the
\* stored routes
RECURSIVE GearForward(_, _)
GearForward(w, current) ==
    IF w.routes[current] = None THEN w
    ELSE LET Deliver(w3) == IF Ok(w3) THEN receive_data(w3, PacketSize) ELSE w3
             Relay(w2, next_hop) ==
                 IF ~Ok(w2) THEN w2
                 ELSE IF BSD2(next_hop) <= BS_RANGE * BS_RANGE
                      THEN Deliver(transmit(w2, next_hop, PacketSize, BSD2(next_hop), BS))
                      ELSE GearForward(w2, next_hop)
             Received(w1, next_hop) ==
                 IF ~Ok(w1) THEN w1 ELSE Relay(receive(w1, next_hop, PacketSize), next_hop)
             Hop(wr, next_hop) ==
                 Received(transmit(wr, current, PacketSize, NodeD2(current, next_hop), next_hop),
                          next_hop)
             Repaired(r) == IF Len(r.route) > 1
                            THEN [r.w EXCEPT !.routes[current] = r.route[2]]
                            ELSE r.w
             Continue(r, wr) == IF wr.crashed \/ Len(r.route) <= 1 THEN wr
                                ELSE Hop(wr, wr.routes[current])
             AfterRepair(r) == Continue(r, Repaired(r))
         IN  IF w.alive[w.routes[current]] THEN Hop(w, w.routes[current])
             ELSE AfterRepair(GearRepair(w, current))

\* detect_and_forward, lines 157-201: the nodes of region number r; draws are
\* the pairs <<r, node>> whose draw random.random() fell below 0.05
RECURSIVE GearDetectRegion(_, _, _, _)
GearDetectRegion(w, draws, r, i) ==
    IF i > NumNodes \/ w.crashed THEN w
    ELSE IF w.alive[i] /\ InRegion(i, target_regions[r]) /\ <<r, i>> \in draws
         THEN GearDetectRegion(GearForward(sense(w, i, PacketSize), i), draws, r, i + 1)
         ELSE GearDetectRegion(w, draws, r, i + 1)

\* detect_and_forward up to its yield
RECURSIVE detect_and_forward(_, _, _)
detect_and_forward(w, draws, r) ==
    IF r > Len(target_regions) \/ w.crashed THEN w
    ELSE detect_and_forward(GearDetectRegion(w, draws, r, 1), draws, r + 1)

\* The draws detect_and_forward can make: a pair for each node of a region
DetectionDraws ==
    {d \in (1..Len(target_regions)) \X Nodes : InRegion(d[2], target_regions[d[1]])}

\* --------------------------------------------------------------- the steps
\* The history h after the calls c[k..] of a step that ran at time t: the
\* times at which propagate_interest, reinforce_paths and (called by run)
\* construct_chain ran, and the leader of each round with the chain it was
\* taken from.
RECURSIVE HistoryAfter(_, _, _, _)
HistoryAfter(h, c, k, t) ==
    IF k > Len(c) THEN h
    ELSE HistoryAfter(
             IF c[k].op \in {"propagate_interest", "reinforce_paths", "construct_chain"}
             THEN [h EXCEPT ![c[k].op] = Append(@, t)]
             ELSE IF c[k].op = "select_leader"
                  THEN [h EXCEPT !.leaders = Append(@, [round |-> c[k].round,
                                                        chain |-> c[k].chain,
                                                        leader |-> c[k].leader])]
                  ELSE h,
             c, k + 1, t)

\* The state a step leaves, from the world it ended with.
Commit(w) ==
    /\ history' = HistoryAfter(history, w.calls, 1, wake)
    /\ energy' = w.energy
    /\ alive' = w.alive
    /\ log' = w.log
    /\ calls' = w.calls
    /\ data_received' = w.data_received
    /\ packets_received' = w.packets_received
    /\ is_cluster_head' = w.is_cluster_head
    /\ cluster_head' = w.cluster_head
    /\ cluster_heads' = w.cluster_heads
    /\ clusters' = w.clusters
    /\ chain' = w.chain
    /\ leader' = w.leader
    /\ gradients' = w.gradients
    /\ events_detected' = w.events_detected
    /\ routes' = w.routes

\* The process resumes at time wake, runs to its next yield env.timeout(delay)
\* and waits there, at suspension point label.
Suspend(label, delay) ==
    /\ now' = wake
    /\ wake' = wake + delay
    /\ pc' = label
    /\ collector_newer' = FALSE

\* The suspension points at which a sub-process ends: the process that
\* resumes there returns at once, and run goes on only when the event of that
\* return is handled, behind every event already queued for the instant.  At
\* "start" run has not yet started its first sub-process.
AcrossProcesses(label) ==
    label \in {"start", "setup_phase", "steady_state_phase", "gather_data",
               "propagate_interest", "detect_events", "deliver_data",
               "reinforce_paths", "repropagate_interest", "detect_and_forward"}

\* A scheduler that lets the protocol run whenever both are due.
ProtocolFirstAlways == TRUE

\* Protocol and collector are due at the same instant: the older event is
\* handled first.
ProtocolFirst == ~AcrossProcesses(pc) /\ collector_newer

\* The process is due, before the collector, and the horizon of the model
\* is not passed.
Due(name) ==
    /\ protocol = name
    /\ wake <= MaxTime
    /\ wake < next_sample \/ (wake = next_sample /\ ProtocolFirst)

\* LEACH.run, lines 32-35, and setup_phase up to its yield
LeachRound ==
    /\ Due("LEACH")
    /\ pc \in {"start", "idle"}
    /\ \E draws \in ElectionDraws(current_round + 1) :
           Commit(setup_phase(ThresholdRecorded(World, current_round + 1), draws))
    /\ current_round' = current_round + 1
    /\ last_head' = [n \in Nodes |-> IF is_cluster_head'[n] THEN current_round + 1
                                      ELSE last_head[n]]
    /\ frame' = 0
    /\ Suspend("setup_phase", 10)
    /\ UNCHANGED <<protocol, position, collectorVars, p, round_num, detections>>

\* steady_state_phase: one frame, up to yield env.timeout(20)
LeachFrame ==
    /\ Due("LEACH")
    /\ pc = "setup_phase" \/ (pc = "frame" /\ frame < NUM_FRAMES)
    /\ Commit(LeachFrameFrom(World, 1))
    /\ frame' = frame + 1
    /\ Suspend("frame", 20)
    /\ UNCHANGED <<fixedVars, current_round, round_num, detections>>

\* steady_state_phase, line 144: the frames are over
LeachSteadyEnd ==
    /\ Due("LEACH")
    /\ pc = "frame" /\ frame = NUM_FRAMES
    /\ Commit(World)
    /\ Suspend("steady_state_phase", 50)
    /\ UNCHANGED <<fixedVars, current_round, frame, round_num, detections>>

\* LEACH.run, line 39: wait for the next round
LeachIdle ==
    /\ Due("LEACH")
    /\ pc = "steady_state_phase"
    /\ Commit(World)
    /\ Suspend("idle", ROUND_TIME)
    /\ UNCHANGED <<fixedVars, current_round, frame, round_num, detections>>

\* PEGASIS.run, lines 28-42: a round up to the yield in gather_data, or, in a
\* round that does not gather, up to the round's own yield
PegasisRound ==
    /\ Due("PEGASIS")
    /\ pc \in {"start", "idle"}
    /\ round_num' = round_num + 1
    /\ LET w == SelectLeader(World, round_num + 1)
       IN  IF Gathers(w)
           THEN /\ Commit(gather_data(w))
                /\ Suspend("gather_data", 30)
           ELSE /\ \E w2 \in Reconstructed(w, wake) : Commit(w2)
                /\ Suspend("idle", 50)
    /\ UNCHANGED <<fixedVars, current_round, frame, detections>>

\* PEGASIS.run, lines 38-42: after gather_data returned
PegasisAfterGather ==
    /\ Due("PEGASIS")
    /\ pc = "gather_data"
    /\ \E w2 \in Reconstructed(World, wake) : Commit(w2)
    /\ Suspend("idle", 50)
    /\ UNCHANGED <<fixedVars, current_round, frame, round_num, detections>>

\* DirectedDiffusion.run, line 31: the initial interest propagation
DDStart ==
    /\ Due("DirectedDiffusion")
    /\ pc = "start"
    /\ Commit(dd_propagate_interest(World))
    /\ Suspend("propagate_interest", 20)
    /\ UNCHANGED <<fixedVars, current_round, frame, round_num, detections>>

\* DirectedDiffusion.run, line 36: detect_events
DDDetect ==
    /\ Due("DirectedDiffusion")
    /\ pc \in {"propagate_interest", "idle"}
    /\ \E draws \in SUBSET {n \in Nodes : alive[n]} :
           /\ detections + Cardinality(draws) <= MaxEvents
           /\ detections' = detections + Cardinality(draws)
           /\ Commit(detect_events(World, draws, wake, 1))
    /\ Suspend("detect_events", 5)
    /\ UNCHANGED <<fixedVars, current_round, frame, round_num>>

\* DirectedDiffusion.run, line 39: deliver_data
DDDeliver ==
    /\ Due("DirectedDiffusion")
    /\ pc = "detect_events"
    /\ Commit(deliver_data(World, events_detected, wake, 1))
    /\ Suspend("deliver_data", 10)
    /\ UNCHANGED <<fixedVars, current_round, frame, round_num, detections>>

\* DirectedDiffusion.run, lines 42-49: reinforce, re-propagate, or wait
DDContinue ==
    /\ Due("DirectedDiffusion")
    /\ pc \in {"deliver_data", "reinforce_paths", "repropagate_interest"}
    /\ LET next == DDAfter(World, pc, wake)
       IN  Commit(next.w) /\ Suspend(next.label, next.delay)
    /\ UNCHANGED <<fixedVars, current_round, frame, round_num, detections>>

\* The step of a process ends at its next yield, or with the exception that
\* ends the process
SuspendOrCrash(w, label, delay) ==
    IF w.crashed
    THEN now' = wake /\ wake' = wake /\ pc' = "crashed" /\ collector_newer' = FALSE
    ELSE Suspend(label, delay)

\* detect_and_forward as a step
GearDetectStep ==
    \E draws \in SUBSET DetectionDraws :
        /\ detections + Cardinality(draws) <= MaxEvents
        /\ detections' = detections + Cardinality(draws)
        /\ LET w == detect_and_forward(World, draws, 1)
           IN  Commit(w) /\ SuspendOrCrash(w, "detect_and_forward", 10)

\* A test that finds the interest due at time 0 only.
InterestDueOnce(t) == t = 0

\* GEAR.run, line 33: the interest is due at time t
InterestDue(t) == t % GEAR_INTEREST_INTERVAL = 0

\* GEAR.run, lines 31-37: the top of the loop, up to the yield in
\* propagate_interest or, when no propagation is due, in detect_and_forward
GearLoop ==
    /\ Due("GEAR")
    /\ pc \in {"start", "idle"}
    /\ IF InterestDue(wake)
       THEN /\ Commit(gear_propagate_interest(Ran(World, "propagate_interest"), 1))
            /\ Suspend("propagate_interest", 20)
            /\ UNCHANGED detections
       ELSE GearDetectStep
    /\ UNCHANGED <<fixedVars, current_round, frame, round_num>>

\* GEAR.run, line 37: detect_and_forward after propagate_interest
GearAfterInterest ==
    /\ Due("GEAR")
    /\ pc = "propagate_interest"
    /\ GearDetectStep
    /\ UNCHANGED <<fixedVars, current_round, frame, round_num>>

\* GEAR.run, line 39: the idle wait
GearIdle ==
    /\ Due("GEAR")
    /\ pc = "detect_and_forward"
    /\ Commit(World)
    /\ Suspend("idle", 10)
    /\ UNCHANGED <<fixedVars, current_round, frame, round_num, detections>>

\* ---------------------------------------------------- the metrics collector
METRICS_INTERVAL == 10     \* the sampling cadence

\* A collector that sets network_lifetime at every all-dead sample.
LifetimeAfterAlways(lifetime, alive_count, t) ==
    IF alive_count = 0 THEN t ELSE lifetime

\* network_lifetime after a sample at time t that saw alive_count live
\* nodes: the time of the first all-dead sample
LifetimeAfter(lifetime, alive_count, t) ==
    IF alive_count = 0 /\ lifetime = 0 THEN t ELSE lifetime

\* The collector samples and waits for the next sampling instant.
CollectMetrics ==
    /\ protocol # "node"
    /\ pc # "crashed"
    /\ next_sample <= MaxTime
    /\ next_sample < wake \/ (next_sample = wake /\ ~ProtocolFirst)
    /\ LET alive_count == Cardinality({n \in Nodes : alive[n]})
           lifetime == LifetimeAfter(metrics.network_lifetime, alive_count, next_sample)
       IN  /\ metrics' = [samples |-> metrics.samples + 1,
                          first_alive |-> IF metrics.samples = 0 THEN alive_count
                                          ELSE metrics.first_alive,
                          first_time |-> IF metrics.samples = 0 THEN next_sample
                                         ELSE metrics.first_time,
                          network_lifetime |-> lifetime]
           /\ observed' = [first_dead |-> IF alive_count = 0 /\ observed.first_dead = None
                                          THEN next_sample ELSE observed.first_dead,
                           sets |-> IF alive_count = 0 /\ lifetime = next_sample
                                    THEN observed.sets + 1 ELSE observed.sets]
    /\ now' = next_sample
    /\ next_sample' = next_sample + METRICS_INTERVAL
    /\ collector_newer' = TRUE
    /\ log' = <<>>
    /\ calls' = <<>>
    /\ UNCHANGED <<protocol, position, nodeVars, bsVars, wake, pc, detections,
                   leachVars, pegasisVars, ddVars, gearVars, history>>

\* ------------------------------------------------------ the specification
Protocols == {"LEACH", "DirectedDiffusion", "GEAR", "PEGASIS"}

\* The protocol objects after construction and setup(); PEGASIS.setup
\* constructs the first chain, the other setups leave their state empty.
InitProtocolState ==
    /\ alive = [n \in Nodes |-> TRUE]
    /\ is_cluster_head = [n \in Nodes |-> FALSE]
    /\ cluster_head = [n \in Nodes |-> None]
    /\ data_received = 0
    /\ packets_received = 0
    /\ now = 0
    /\ wake = 0
    /\ pc = "start"
    /\ log = <<>>
    /\ current_round = 0
    /\ last_head = [n \in Nodes |-> 0]
    /\ cluster_heads = <<>>
    /\ clusters = [n \in Nodes |-> <<>>]
    /\ frame = 0
    /\ chain \in IF protocol = "PEGASIS"
                 THEN ConstructedChains([alive |-> [n \in Nodes |-> TRUE]])
                 ELSE {<<>>}
    /\ calls = IF protocol = "PEGASIS"
               THEN <<[op |-> "construct_chain", alive |-> Nodes, chain |-> chain,
                       outcomes |-> ConstructedChains(
                                        [alive |-> [n \in Nodes |-> TRUE]])]>>
               ELSE <<>>
    /\ leader = None
    /\ round_num = 0
    /\ gradients = [n \in Nodes |-> <<>>]
    /\ events_detected = <<>>
    /\ routes = [n \in Nodes |-> None]
    /\ detections = 0
    /\ next_sample = 0
    /\ metrics = [samples |-> 0, first_alive |-> 0, first_time |-> 0,
                  network_lifetime |-> 0]
    /\ observed = [first_dead |-> None, sets |-> 0]
    /\ collector_newer = TRUE
    /\ history = [propagate_interest |-> <<>>, reinforce_paths |-> <<>>,
                  construct_chain |-> <<>>, leaders |-> <<>>]

Init ==
    /\ protocol \in Protocols
    /\ p \in IF protocol = "LEACH" THEN PValues ELSE {<<P_NUM, P_DEN>>}
    /\ \/ /\ \E l \in Layouts \cup (IF protocol = "GEAR" THEN {} ELSE TieLayouts) :
                 position = [n \in Nodes |-> l[n]]
          /\ \/ \E e \in Profiles : energy = [n \in Nodes |-> StartEnergy(e[n])]
             \/ protocol = "LEACH" /\ energy = [n \in Nodes |-> LowEnergy]
       \/ /\ protocol = "GEAR"
          /\ position = [n \in Nodes |-> PlaneLayout[n]]
          /\ energy = [n \in Nodes |-> StartEnergy(PlaneProfile[n])]
    /\ InitProtocolState

Next ==
    \/ LeachRound
    \/ LeachFrame
    \/ LeachSteadyEnd
    \/ LeachIdle
    \/ PegasisRound
    \/ PegasisAfterGather
    \/ DDStart
    \/ DDDetect
    \/ DDDeliver
    \/ DDContinue
    \/ GearLoop
    \/ GearAfterInterest
    \/ GearIdle
    \/ CollectMetrics

Spec == Init /\ [][Next]_vars


\* ---------------------------------------------------- the node on its own
\* The operations of SensorNode called directly, in any order and any number
\* of times at one simulated instant, with data sizes and distances drawn
\* from small sets.  The sizes make a cost of nothing and, for sensing and
\* aggregation, of a whole EnergyStep, so that a call can leave a node with
\* exactly nothing.  The operations take the distance as an argument and
\* read no position, so the nodes lie anywhere.
DataSizes == {0, EnergyStep \div E_SENSE}

Distances2 == {0, 450}

NodeInit ==
    /\ protocol = "node"
    /\ p = <<P_NUM, P_DEN>>
    /\ position = [n \in Nodes |-> <<10 * n, 10 * n>>]
    /\ energy \in [Nodes -> {StartEnergy(1), StartEnergy(4)}]
    /\ InitProtocolState

NodeFrame ==
    UNCHANGED <<fixedVars, collector_newer, now, wake, pc, current_round, frame,
                round_num, detections>>

NodeTransmit ==
    /\ protocol = "node"
    /\ \E n \in Nodes, data_size \in DataSizes, d2 \in Distances2 :
           Commit(transmit(World, n, data_size, d2, None))
    /\ NodeFrame

NodeReceive ==
    /\ protocol = "node"
    /\ \E n \in Nodes, data_size \in DataSizes : Commit(receive(World, n, data_size))
    /\ NodeFrame

NodeSense ==
    /\ protocol = "node"
    /\ \E n \in Nodes, data_size \in DataSizes : Commit(sense(World, n, data_size))
    /\ NodeFrame

NodeAggregate ==
    /\ protocol = "node"
    /\ \E n \in Nodes, data_size \in DataSizes :
           Commit(aggregate_data(World, n, data_size))
    /\ NodeFrame

NodeNext ==
    \/ NodeTransmit
    \/ NodeReceive
    \/ NodeSense
    \/ NodeAggregate

NodeSpec == NodeInit /\ [][NodeNext]_vars


\* ------------------------------------- interest and reinforcement on their own
\* propagate_interest and reinforce_paths of Directed Diffusion applied in any
\* order to the networks of Init, to a network whose third node is two hops
\* from the base station and to nodes that start with little energy, each
\* call followed by its timeout.
ReinforceHorizon == 100     \* no call starts after this time

\* A deployment in a line above the base station: the first node in its
\* range, the second in range of the first, the third of the second only.
ChainLayout == <<<<50, 60>>, <<50, 85>>, <<50, 100>>, <<50, 40>>, <<50, 15>>>>

ReinforceInit ==
    /\ protocol = "DirectedDiffusion"
    /\ p = <<P_NUM, P_DEN>>
    /\ \E l \in Layouts \cup TieLayouts \cup {ChainLayout} :
           position = [n \in Nodes |-> l[n]]
    /\ \/ \E e \in Profiles : energy = [n \in Nodes |-> StartEnergy(e[n])]
       \/ \E k \in 1..3 : energy = [n \in Nodes |-> k * LowEnergy]
    /\ InitProtocolState

ReinforceFrame ==
    UNCHANGED <<fixedVars, current_round, frame, round_num, detections>>

\* propagate_interest up to its yield, line 91
ReinforceInterest ==
    /\ wake <= ReinforceHorizon
    /\ Commit(dd_propagate_interest(World))
    /\ Suspend("propagate_interest", 20)
    /\ ReinforceFrame

\* reinforce_paths up to its yield, line 180
ReinforcePaths ==
    /\ wake <= ReinforceHorizon
    /\ Commit(reinforce_paths(Ran(World, "reinforce_paths"), 1))
    /\ Suspend("reinforce_paths", 10)
    /\ ReinforceFrame

ReinforceNext ==
    \/ ReinforceInterest
    \/ ReinforcePaths

ReinforceSpec == ReinforceInit /\ [][ReinforceNext]_vars

\* ------------------------------------------------------------- the claims
NodeOps == {"transmit", "receive", "sense", "aggregate_data"}

\* C1: a call of transmit, receive, sense or aggregate_data on a node that is
\* dead returns failure and leaves the node's energy and alive flag as they
\* were, whatever the data size and the distance and however often the call
\* is repeated at one instant.
C1_DeadNodeCallRefused ==
    [][\A k \in 1..Len(log') :
           (log'[k].op \in NodeOps /\ ~log'[k].wasAlive)
               => /\ ~log'[k].ok
                  /\ log'[k].after = log'[k].before
                  /\ ~log'[k].isAlive
                  /\ energy' = energy
                  /\ alive' = alive]_vars

\* A call was made on a dead node.
C1_Witness ==
    /\ protocol = "node"
    /\ \E k \in 1..Len(log) : log[k].op \in NodeOps /\ ~log[k].wasAlive

\* C2: in every step of every protocol no node's energy increases and no dead
\* node becomes alive.
C2_EnergyNeverIncreases ==
    [][\A n \in Nodes : energy'[n] <= energy[n] /\ (~alive[n] => ~alive'[n])]_vars

\* A protocol has called on a node that was dead already, and has spent
\* energy of another.
C2_Witness ==
    /\ protocol \in Protocols
    /\ \E k \in 1..Len(log) : log[k].op \in NodeOps /\ ~log[k].wasAlive
    /\ \E k \in 1..Len(log) : log[k].op \in NodeOps /\ log[k].after < log[k].before

\* C3: a node is dead if and only if its energy is 0.
C3_DeadIffEmpty == \A n \in Nodes : (~alive[n]) <=> (energy[n] = 0)

\* A call has killed a node while another node lives on.
C3_Witness ==
    /\ protocol = "node"
    /\ \E k \in 1..Len(log) : log[k].wasAlive /\ ~log[k].isAlive
    /\ \E n \in Nodes : alive[n]

C5_SuccessMeansAlive ==
    \A k \in 1..Len(log) : (log[k].op \in NodeOps /\ log[k].ok) => log[k].isAlive

\* C6: the energy of every node lies between 0 and the most a node starts
\* with; no sequence of calls drives it below 0.
C6_EnergyInRange == \A n \in Nodes : 0 <= energy[n] /\ energy[n] <= HighEnergy

\* A protocol has asked a live node for more energy than it had.
C6_Witness ==
    /\ protocol \in Protocols
    /\ \E k \in 1..Len(log) :
           /\ log[k].op \in NodeOps
           /\ log[k].wasAlive
           /\ log[k].before < log[k].cost
           /\ energy[log[k].node] = 0

\* The number of receive_data calls in the log l, and the sum of their sizes
RECURSIVE ReceivedCount(_, _)
ReceivedCount(l, k) ==
    IF k > Len(l) THEN 0
    ELSE (IF l[k].op = "receive_data" THEN 1 ELSE 0) + ReceivedCount(l, k + 1)

RECURSIVE ReceivedSum(_, _)
ReceivedSum(l, k) ==
    IF k > Len(l) THEN 0
    ELSE (IF l[k].op = "receive_data" THEN l[k].size ELSE 0) + ReceivedSum(l, k + 1)

\* C7: the counters of the base station never decrease; each receive_data(s)
\* adds 1 to packets_received and s to data_received, and nothing else
\* changes them.
C7_SinkCountsReceiveData ==
    [][/\ packets_received' = packets_received + ReceivedCount(log', 1)
       /\ data_received' = data_received + ReceivedSum(log', 1)
       /\ packets_received' >= packets_received
       /\ data_received' >= data_received]_vars

\* The base station has received a second packet.
C7_Witness ==
    /\ packets_received >= 2
    /\ \E k \in 1..Len(log) : log[k].op = "receive_data" /\ log[k].size > 0

\* C8: the run loop of a protocol never ends with an error.
C8_RunLoopNeverFails == pc # "crashed"

\* C9: a LEACH round in which no cluster head is elected, and a PEGASIS round
\* that starts with an empty chain, change no node's energy or alive flag and
\* neither counter of the base station, and go on to the round's waits.
C9_EmptyRoleRoundSkipped ==
    [][/\ (protocol = "LEACH" /\ cluster_heads' = <<>> /\ ~collector_newer')
           => /\ energy' = energy
              /\ alive' = alive
              /\ UNCHANGED bsVars
              /\ pc' \in {"setup_phase", "frame", "steady_state_phase", "idle"}
       /\ (protocol = "PEGASIS" /\ chain = <<>> /\ ~collector_newer')
           => /\ energy' = energy
              /\ alive' = alive
              /\ UNCHANGED bsVars
              /\ pc' = "idle"]_vars

\* A LEACH round that elected no head among live nodes has reached its idle
\* wait.
C9_Witness ==
    /\ protocol = "LEACH"
    /\ pc = "idle"
    /\ cluster_heads = <<>>
    /\ \E n \in Nodes : alive[n]

\* A PEGASIS round that started with an empty chain has reached its idle wait.
C9_WitnessPegasis ==
    /\ protocol = "PEGASIS"
    /\ pc = "idle"
    /\ chain = <<>>
    /\ now > CHAIN_RECONSTRUCTION_INTERVAL

\* C10: a live node transmits data to another node only if that node is
\* alive at the moment of the call.
C10_DataOnlyToLiveRecipient ==
    \A k \in 1..Len(log) :
        (/\ log[k].op = "transmit"
         /\ log[k].size = PacketSize
         /\ log[k].to \in Nodes
         /\ log[k].wasAlive)
            => log[k].toAlive


\* C18: round_time is the duration of a LEACH round: the first round starts
\* at time 0 and every later round starts exactly round_time after the one
\* before it, so that round k starts at (k - 1) * round_time.  A round starts
\* where run increments current_round; setup_phase then runs to its yield
\* without time passing, and the state it leaves is the one looked at.
C18_RoundTimeIsRoundDuration ==
    (protocol = "LEACH" /\ pc = "setup_phase" /\ ~collector_newer)
        => now = (current_round - 1) * ROUND_TIME

\* C20: every detected event brings the base station at most one packet: the
\* packets received never outnumber the detections.
C20_EventDeliveredAtMostOnce ==
    protocol = "DirectedDiffusion" => packets_received <= detections


\* C13: right after construct_chain the chain holds every node that was
\* alive and no dead one, each once; it starts at a live node as far from
\* the base station as any; and each later element is, among the live nodes
\* not yet in the chain, one as near to its predecessor as any.
C13_ChainIsGreedyTour ==
    \A k \in 1..Len(calls) :
        calls[k].op = "construct_chain" =>
            LET c == calls[k].chain
                live == calls[k].alive
                Before(i) == {c[j] : j \in 1..(i - 1)}
            IN  /\ chain = c
                /\ {c[i] : i \in 1..Len(c)} = live
                /\ Len(c) = Cardinality(live)
                /\ c # <<>> => \A n \in live : BSD2(c[1]) >= BSD2(n)
                /\ \A i \in 2..Len(c) :
                       \A n \in live \ Before(i) :
                           NodeD2(c[i - 1], c[i]) <= NodeD2(c[i - 1], n)

\* The chain was rebuilt while some node was dead and at least two lived.
C13_Witness ==
    \E k \in 1..Len(calls) :
        /\ calls[k].op = "construct_chain"
        /\ calls[k].alive # Nodes
        /\ Len(calls[k].chain) >= 2
        /\ now > 0


\* Node n is in the neighbour list of node m.
IsNeighbor(m, n) == \E k \in 1..Len(Neighbors(m)) : Neighbors(m)[k] = n

\* The nodes of live joined to a node of S by a chain of neighbours in live.
RECURSIVE ReachableFrom(_, _)
ReachableFrom(S, live) ==
    LET T == S \cup {n \in live : \E m \in S : IsNeighbor(m, n)}
    IN  IF T = S THEN S ELSE ReachableFrom(T, live)

\* C12: discover_route(start_pos, target), called with a node as target,
\* returns None (the empty route) or a path without repeated nodes, from the
\* live node closest to start_pos, to the target, each element a neighbour
\* of the one before it; and it returns None exactly when no chain of live
\* neighbours joins that closest node to the target.  Live means alive when
\* the call starts; of several live nodes equally close to start_pos, the
\* closest node is any one of them.
C12_RouteIsSimplePathOrNone ==
    \A k \in 1..Len(calls) :
        (calls[k].op = "discover_route" /\ calls[k].target \in Nodes) =>
            LET route == calls[k].route
                live == calls[k].alive
                closest == {n \in live : \A m \in live :
                               D2(position[n], calls[k].start_pos)
                                   <= D2(position[m], calls[k].start_pos)}
            IN  /\ route # <<>> =>
                       /\ \A i, j \in 1..Len(route) : route[i] = route[j] => i = j
                       /\ route[Len(route)] = calls[k].target
                       /\ \A i \in 2..Len(route) : IsNeighbor(route[i - 1], route[i])
                /\ \E c \in closest :
                       /\ route # <<>> => route[1] = c
                       /\ route = <<>> <=>
                              calls[k].target \notin ReachableFrom({c}, live)

\* discover_route returned a path through an intermediate node.
C12_Witness ==
    \E k \in 1..Len(calls) :
        /\ calls[k].op = "discover_route"
        /\ calls[k].target \in Nodes
        /\ Len(calls[k].route) >= 3

\* discover_route returned None for a live target that no chain of live
\* neighbours joins to the start.
C12_WitnessNone ==
    \E k \in 1..Len(calls) :
        /\ calls[k].op = "discover_route"
        /\ calls[k].target \in calls[k].alive
        /\ calls[k].route = <<>>


\* C19: the repair of a route whose next hop died completes without error:
\* the route discovery that detect_and_forward re-runs toward the base
\* station returns (a route or None) and the protocol goes on.
C19_RepairCompletes ==
    \A k \in 1..Len(calls) :
        (calls[k].op = "discover_route" /\ calls[k].target = BS)
            => ~calls[k].crashed /\ pc = "detect_and_forward"


\* C14: deliver_data forwards the data of no event older than the expiry age
\* of 50; the entry of such an event is deleted from events_detected, so that
\* no entry older than 50 is left when deliver_data waits; and an entry is
\* deleted once: it was in events_detected when it was deleted and no other
\* deletion of the same run of deliver_data names its node.
C14_ExpiredEventDroppedOnce ==
    /\ \A k \in 1..Len(calls) :
           calls[k].op = "deliver_data" =>
               /\ calls[k].outcome = "forwarded"
                      => calls[k].at - calls[k].time <= EVENT_EXPIRY
               /\ calls[k].at - calls[k].time > EVENT_EXPIRY
                      => /\ calls[k].outcome = "expired"
                         /\ calls[k].present
                         /\ \A j \in 1..Len(events_detected) :
                                events_detected[j].node_id # calls[k].node_id
                         /\ \A j \in 1..Len(calls) :
                                (/\ calls[j].op = "deliver_data"
                                 /\ calls[j].outcome = "expired"
                                 /\ calls[j].node_id = calls[k].node_id) => j = k
    /\ (protocol = "DirectedDiffusion" /\ pc = "deliver_data" /\ ~collector_newer)
           => \A j \in 1..Len(events_detected) :
                  now - events_detected[j].time <= EVENT_EXPIRY

\* deliver_data met an expired event next to one it forwarded.
C14_Witness ==
    /\ \E k \in 1..Len(calls) :
           calls[k].op = "deliver_data" /\ calls[k].outcome = "expired"
    /\ \E k \in 1..Len(calls) :
           calls[k].op = "deliver_data" /\ calls[k].outcome = "forwarded"


\* C11: a run is determined by its configuration and its random draws.  The
\* steps of the model take the draws as their input and compute everything
\* else from the state, but for the order in which construct_chain meets the
\* remaining nodes; so the runs are determined exactly when every call of
\* construct_chain can build one chain only.
C11_Deterministic ==
    \A k \in 1..Len(calls) :
        calls[k].op = "construct_chain" => Cardinality(calls[k].outcomes) = 1


\* ceil(1/p)
RotationWindow == (p[2] + p[1] - 1) \div p[1]

\* C15: whatever p is, a node alive throughout ceil(1/p) consecutive LEACH
\* rounds is elected cluster head in one of them.  At the end of a round, a
\* node still alive was alive in every round so far: once ceil(1/p) rounds
\* have run, its last election is less than ceil(1/p) rounds back.
C15_HeadOncePerWindow ==
    (protocol = "LEACH" /\ pc = "idle" /\ current_round >= RotationWindow)
        => \A n \in Nodes :
               alive[n] => current_round - last_head[n] < RotationWindow


\* C16: network_lifetime is assigned at most once; if it is not 0 it is the
\* time of the first sample that saw no live node; and it is 0 as long as
\* every sample saw a live node.
C16_LifetimeSetOnce ==
    /\ observed.sets <= 1
    /\ metrics.network_lifetime # 0
           => metrics.network_lifetime = observed.first_dead
    /\ observed.first_dead = None => metrics.network_lifetime = 0

\* A sample was taken after the one that set network_lifetime.
C16_Witness ==
    /\ metrics.network_lifetime # 0
    /\ now > metrics.network_lifetime
    /\ collector_newer

\* C17: the first sample is taken at time 0, before any energy-consuming
\* operation of the protocol, and records every node alive.
C17_FirstSampleSeesAllAlive ==
    /\ metrics.samples = 0
           => /\ log = <<>>
              /\ \A n \in Nodes : alive[n] /\ energy[n] > 0
    /\ metrics.samples >= 1
           => metrics.first_time = 0 /\ metrics.first_alive = NumNodes

\* The protocol has spent energy, and lost a node, at time 0, after the
\* first sample.
C17_Witness ==
    /\ metrics.samples = 1
    /\ now = 0
    /\ log # <<>>
    /\ \E n \in Nodes : ~alive[n]


\* C21: whenever deliver_data forwards the data of an event whose own source
\* node is within base-station range (distance <= 20), the source transmits
\* to the base station.
C21_SourceInRangeDelivers ==
    \A k \in 1..Len(calls) :
        (/\ calls[k].op = "deliver_data"
         /\ calls[k].outcome = "forwarded"
         /\ BSD2(calls[k].node_id) <= BS_RANGE * BS_RANGE)
            => \E j \in 1..Len(log) :
                   /\ log[j].op = "transmit"
                   /\ log[j].node = calls[k].node_id
                   /\ log[j].to = BS


\* The join messages in the log of a setup_phase: a transmit of 50 bits that
\* the receive of its addressee follows at once (a broadcast is followed by
\* no receive).
JoinCalls ==
    {k \in 1..(Len(log) - 1) :
        /\ log[k].op = "transmit" /\ log[k].size = 50 /\ log[k].to \in Nodes
        /\ log[k + 1].op = "receive" /\ log[k + 1].node = log[k].to
        /\ log[k + 1].size = 50}

\* C22: in setup_phase no node joins a head that is dead at the moment of
\* the join: the head a join message is addressed to is alive when the
\* message is sent.
C22_JoinsLiveHead ==
    (protocol = "LEACH" /\ pc = "setup_phase" /\ ~collector_newer)
        => \A k \in JoinCalls : log[k].toAlive


\* C23: the threshold applied in round r is p / (1 - p * (r mod ceil(1/p))),
\* whatever p is, and its denominator is not zero.  With p = p[1] / p[2] that
\* value is the fraction p[1] / (p[2] - p[1] * (r mod ceil(1/p))).
C23_ThresholdUsesCeiling ==
    \A k \in 1..Len(calls) :
        calls[k].op = "threshold" =>
            LET den == p[2] - p[1] * (calls[k].round % RotationWindow)
            IN  /\ calls[k].den # 0
                /\ den # 0
                /\ calls[k].num * den = p[1] * calls[k].den


\* The calls of kind op that node n made in log[first..last]
CallsOf(op, n, first, last) ==
    {j \in first..last : log[j].op = op /\ log[j].node = n}

\* What C24 says of the turn t of a cluster head in a frame, with k the
\* number of members whose data the head received: the head's receive
\* succeeded, which is called only after the member's sense and transmit
\* succeeded.  idle says what the turn of a head with k = 0 is.
TurnContract(t, idle) ==
    LET k == Cardinality({j \in CallsOf("receive", t.ch, t.first, t.last) :
                             log[j].ok /\ log[j].size = PacketSize})
        aggregations == CallsOf("aggregate_data", t.ch, t.first, t.last)
        transmits == {j \in CallsOf("transmit", t.ch, t.first, t.last) :
                         log[j].to = BS}
        packets == CallsOf("receive_data", BS, t.first, t.last)
    IN  /\ Cardinality(packets) <= 1
        /\ \A j \in packets : 10 * log[j].size = 7 * k * PacketSize
        /\ (/\ k >= 1
            /\ \E j \in aggregations : log[j].ok
            /\ \E j \in transmits : log[j].ok) => Cardinality(packets) = 1
        /\ k = 0 => (aggregations = {} /\ transmits = {} /\ packets = {} /\ idle)

\* C24 as it is worded: in a frame, a live head that received the data of
\* k >= 1 members brings the base station exactly one packet of size
\* 0.7 * k * packet_size, provided its aggregation and its transmit succeed;
\* a head with k = 0 forwards nothing and spends no energy: its energy is
\* what it was before its turn.
C24_IdleHeadSpendsNothing ==
    \A i \in 1..Len(calls) :
        calls[i].op = "head_turn"
            => TurnContract(calls[i], calls[i].after = calls[i].before)

\* C24, amended: as above, but a head with k = 0 spends nothing on
\* aggregation and forwarding: it makes neither call, and its energy is what
\* it was before its turn unless a receive it could not pay for has taken
\* what it had left.  A frame adds at most one packet for each cluster
\* head, and a round has at most 5 frames.
C24_OnePacketPerHeadAndFrame ==
    /\ \A i \in 1..Len(calls) :
           calls[i].op = "head_turn"
               => TurnContract(calls[i],
                      \/ calls[i].after = calls[i].before
                      \/ /\ calls[i].after = 0
                         /\ \E j \in CallsOf("receive", calls[i].ch,
                                             calls[i].first, calls[i].last) :
                                log[j].wasAlive /\ ~log[j].ok)
    /\ protocol = "LEACH" => /\ ReceivedCount(log, 1) <= Len(cluster_heads)
                             /\ frame <= NUM_FRAMES

\* In a later frame of a round a head received the data of two members and
\* brought the base station one packet.
C24_Witness ==
    /\ frame >= 2
    /\ \E i \in 1..Len(calls) :
           /\ calls[i].op = "head_turn"
           /\ Cardinality({j \in CallsOf("receive", calls[i].ch, calls[i].first,
                                         calls[i].last) : log[j].ok}) = 2
           /\ CallsOf("receive_data", BS, calls[i].first, calls[i].last) # {}


\* C25: reinforce_paths runs periodically: once the first three
\* reinforcement intervals have passed, it has run at least once.
C25_ReinforcementRuns ==
    (protocol = "DirectedDiffusion" /\ now >= 3 * REINFORCEMENT_INTERVAL)
        => history.reinforce_paths # <<>>

\* C26: propagate_interest runs again after the initial flood: once the
\* first two interest intervals have passed, it has run at least twice.
C26_InterestRepropagated ==
    (protocol = "DirectedDiffusion" /\ now >= 2 * DD_INTEREST_INTERVAL)
        => Len(history.propagate_interest) >= 2

\* The multiples of the interest interval before time t, in order
RECURSIVE InterestTimes(_, _)
InterestTimes(from, t) ==
    IF from >= t THEN <<>>
    ELSE <<from>> \o InterestTimes(from + GEAR_INTEREST_INTERVAL, t)

\* C27: as long as its loop runs, GEAR has run propagate_interest at time 0
\* and at every later multiple of 200 that the loop has reached, and at no
\* other time.  The loop has reached every instant before wake, the time at
\* which it resumes.
C27_InterestEveryInterval ==
    (protocol = "GEAR" /\ pc \notin {"start", "crashed"})
        => history.propagate_interest = InterestTimes(0, wake)

\* The loop of GEAR has run propagate_interest for the third time.
C27_Witness ==
    /\ protocol = "GEAR"
    /\ pc = "propagate_interest"
    /\ Len(history.propagate_interest) = 3
    /\ \E n \in Nodes : alive[n]

\* C28: run invokes construct_chain again after setup, on the fixed
\* interval: once the first reconstruction interval has passed and while a
\* node is alive, run has invoked it.
C28_ChainReconstructed ==
    (/\ protocol = "PEGASIS"
     /\ now > CHAIN_RECONSTRUCTION_INTERVAL
     /\ \E n \in Nodes : alive[n])
        => history.construct_chain # <<>>


\* C29: a call that fails in the sweep from the leader toward the start of
\* the chain halts that sweep only: the sweep toward the end of the chain
\* still starts, that is, the node behind the leader, if it was alive when
\* gather_data started, senses.
C29_FailureHaltsOneSweepOnly ==
    \A k \in 1..Len(calls) :
        calls[k].op = "gather_data" =>
            LET behind == calls[k].leader_idx + 1
            IN  (/\ \E j \in 1..calls[k].first_sweep : ~log[j].ok
                 /\ behind <= Len(calls[k].chain)
                 /\ calls[k].chain[behind] \in calls[k].alive)
                    => \E j \in (calls[k].first_sweep + 1)..Len(log) :
                           /\ log[j].op = "sense"
                           /\ log[j].node = calls[k].chain[behind]


\* C30: the leader of round n, taken from a non-empty chain, is the element
\* of the chain at index n mod len(chain), counted from 0; and of any
\* len(chain) consecutive rounds that take their leader from the same chain,
\* each takes a different one, so that every element of the chain leads
\* exactly one of them.
C30_LeaderRotates ==
    LET l == history.leaders
    IN  /\ \A i \in 1..Len(l) :
               /\ l[i].round = i
               /\ l[i].leader = l[i].chain[(i % Len(l[i].chain)) + 1]
        /\ \A i \in 1..Len(l) :
               LET window == i..(i + Len(l[i].chain) - 1)
               IN  (/\ i + Len(l[i].chain) - 1 <= Len(l)
                    /\ \A j \in window : l[j].chain = l[i].chain)
                       => /\ \A j, k \in window : l[j].leader = l[k].leader => j = k
                          /\ {l[j].leader : j \in window}
                                 = {l[i].chain[m] : m \in 1..Len(l[i].chain)}

\* Four consecutive rounds have taken their leader from the same chain of
\* three nodes.
C30_Witness ==
    \E i \in 1..Len(history.leaders) :
        /\ i + 3 <= Len(history.leaders)
        /\ Len(history.leaders[i].chain) = 3
        /\ \A j \in i..(i + 3) : history.leaders[j].chain = history.leaders[i].chain


\* The messages of the log that a receive follows at once: the transmit
\* log[k] of a node to the node that receives log[k + 1], of the same size.
\* The interest of Directed Diffusion (100 bits) is not among them: its
\* receive is called when the interest is taken from the queue.
MessagePairs ==
    {k \in 1..(Len(log) - 1) :
        /\ log[k].op = "transmit" /\ log[k].to \in Nodes
        /\ log[k + 1].op = "receive" /\ log[k + 1].node = log[k].to
        /\ log[k + 1].size = log[k].size
        /\ ~(protocol = "DirectedDiffusion" /\ log[k].size = 100)}

\* C31: a receiving node is debited for a message only if the sender's
\* transmit of that message returned success.
C31_ReceiverChargedOnlyAfterSuccess ==
    protocol \in Protocols =>
        \A k \in MessagePairs :
            log[k + 1].after < log[k + 1].before => log[k].ok


\* The gradient weight g lies in [0, 1].
UnitWeight(g) == g.den > 0 /\ 0 <= g.num /\ g.num <= g.den

\* reinforce_paths was the last operation to run.
Reinforced == calls # <<>> /\ calls[Len(calls)].op = "reinforce_paths"

\* C33: after reinforce_paths the gradient weights of every live node whose
\* gradients are not empty and have a positive total sum to 1, a second
\* reinforce_paths leaves every weight as it is, and every gradient weight of
\* every reachable state lies in [0, 1].
C33_ReinforcementNormalises ==
    /\ \A n \in Nodes : \A k \in 1..Len(gradients[n]) :
           UnitWeight(gradients[n][k].weight)
    /\ Reinforced =>
           /\ \A n \in Nodes :
                  LET sum == GradientSum(gradients[n], 1)
                  IN  alive[n] /\ gradients[n] # <<>> /\ sum.num > 0 =>
                          sum = [num |-> 1, den |-> 1]
           /\ reinforce_paths(World, 1).gradients = gradients

\* reinforce_paths has run and a live node two hops from the base station,
\* whose weight was 1/2, has its gradient towards a live node that has a
\* gradient itself.
C33_Witness ==
    /\ Reinforced
    /\ \E n \in Nodes :
           /\ alive[n] /\ gradients[n] # <<>>
           /\ gradients[gradients[n][1].to] # <<>>
           /\ alive[gradients[n][1].to]


\* The positions of node n in the member list of head h
MemberAt(h, n) == {j \in 1..Len(clusters[h]) : clusters[h][j] = n}

\* cluster_heads, the flags, the member lists and the references agree.
LeachMembership ==
    /\ \A n \in Nodes :
           is_cluster_head[n] <=> \E k \in 1..Len(cluster_heads) : cluster_heads[k] = n
    /\ \A n \in Nodes :
           /\ Cardinality({h \in Nodes : MemberAt(h, n) # {}}) <= 1
           /\ \A h \in Nodes : Cardinality(MemberAt(h, n)) <= 1
    /\ \A n, h \in Nodes : MemberAt(h, n) # {} <=> cluster_head[n] = h
    /\ \A n, h \in Nodes : is_cluster_head[n] => MemberAt(h, n) = {}

\* C34: after every LEACH setup_phase a node is in cluster_heads iff its flag
\* is set, a node is a member of at most one cluster and at most once, n is
\* in clusters[h] iff n.cluster_head = h, no head is a member, and a node has
\* a flag or a reference only from this round: a node dead before the phase
\* has neither, a head has no reference, and a reference leads to a head.
C34_SetupMembership ==
    [][(protocol = "LEACH" /\ current_round' = current_round + 1) =>
           /\ LeachMembership'
           /\ \A n \in Nodes :
                  /\ ~alive[n] => ~is_cluster_head'[n] /\ cluster_head'[n] = None
                  /\ is_cluster_head'[n] => cluster_head'[n] = None
                  /\ cluster_head'[n] # None => is_cluster_head'[cluster_head'[n]]]_vars

\* A setup_phase of a later round has made a member of a node that was a head
\* in an earlier round, and another node with it is dead.
C34_Witness ==
    /\ protocol = "LEACH" /\ pc = "setup_phase" /\ current_round >= 2
    /\ \E n \in Nodes :
           /\ last_head[n] \in 1..(current_round - 1)
           /\ ~is_cluster_head[n] /\ cluster_head[n] # None
    /\ \E n \in Nodes : ~alive[n]


\* The calls of receive_data among the calls l of a step
Deliveries(l) == {k \in 1..Len(l) : l[k].op = "receive_data"}

\* C35: receive_data is called only directly after a transmit to the base
\* station returned success in the same step, so that packets_received grows
\* by the deliveries of the step only, not in a step in which no node's
\* energy decreased and not once every node is dead.
C35_DeliveryFollowsTransmit ==
    [][(protocol \in Protocols) =>
           /\ \A k \in Deliveries(log') :
                  /\ k > 1
                  /\ log'[k - 1].op = "transmit" /\ log'[k - 1].to = BS
                  /\ log'[k - 1].ok /\ log'[k - 1].size = log'[k].size
           /\ packets_received' = packets_received + Cardinality(Deliveries(log'))
           /\ packets_received' > packets_received =>
                  /\ \E n \in Nodes : energy'[n] < energy[n]
                  /\ \E n \in Nodes : alive[n]]_vars

\* The base station has packets from earlier steps, and in the last step a
\* node's transmit to the base station failed and nothing was delivered.
C35_Witness ==
    /\ protocol \in Protocols
    /\ packets_received > 0
    /\ Deliveries(log) = {}
    /\ \E k \in 1..Len(log) :
           log[k].op = "transmit" /\ log[k].to = BS /\ ~log[k].ok


\* The node reached from n by following k entries of the next-hop table, or
\* None where the table ends before.
RECURSIVE RouteFollowed(_, _)
RouteFollowed(n, k) ==
    IF n = None \/ k = 0 THEN n ELSE RouteFollowed(routes[n], k - 1)

\* C36: the next-hop table of GEAR followed from any node is cycle-free: it
\* ends after fewer entries than there are nodes.
C36_RoutesCycleFree ==
    protocol = "GEAR" => \A n \in Nodes : RouteFollowed(n, NumNodes) = None


\* The seed nodes of an interest propagation that starts with the nodes of
\* a alive: the live nodes in range of the base station
SeedNodes(a) == {n \in Nodes : a[n] /\ BSD2(n) <= BS_RANGE * BS_RANGE}

\* The hop count with which the interest reached node n, read from the
\* gradients g: 1 for a seed, one more than the hop count 1 / weight of the
\* node its entry leads to, and 0 for a node without an entry.
HopCount(g, seeds, n) ==
    IF n \in seeds THEN 1
    ELSE IF g[n] = <<>> THEN 0
    ELSE g[n][1].weight.den + 1

\* The node at which the gradient entries followed from n end, after at most
\* k of them
RECURSIVE GradientEnd(_, _, _)
GradientEnd(g, n, k) ==
    IF g[n] = <<>> \/ k = 0 THEN n ELSE GradientEnd(g, g[n][1].to, k - 1)

\* Node n has at most one entry in the gradients g, none if it is a seed,
\* and its entry leads to a node the interest reached with a smaller hop
\* count, on a path that ends at a seed.
GradientSound(g, seeds, n) ==
    /\ Len(g[n]) <= 1
    /\ n \in seeds => g[n] = <<>>
    /\ g[n] # <<>> =>
           /\ g[n][1].weight.num = 1
           /\ HopCount(g, seeds, g[n][1].to) = g[n][1].weight.den
           /\ HopCount(g, seeds, g[n][1].to) < HopCount(g, seeds, n)
           /\ GradientEnd(g, n, NumNodes) \in seeds

\* A step that runs propagate_interest of Directed Diffusion
InterestStep ==
    /\ protocol = "DirectedDiffusion"
    /\ \E k \in 1..Len(calls') : calls'[k].op = "propagate_interest"

\* C37: after each propagate_interest every node has at most one gradient
\* entry, the seed nodes have none, and the entries followed from any node
\* give a cycle-free path to a seed node, each entry leading to a node the
\* interest reached with a strictly smaller hop count.
C37_GradientsLeadToSeeds ==
    [][InterestStep =>
           \A n \in Nodes : GradientSound(gradients', SeedNodes(alive), n)]_vars


\* A step of PEGASIS that selects the leader of the next round
SelectionStep == protocol = "PEGASIS" /\ round_num' = round_num + 1

\* The calls of sense that succeeded among the calls l of a step
Sensed(l) == {k \in 1..Len(l) : l[k].op = "sense" /\ l[k].ok}

\* C38: PEGASIS delivers at most one packet per round: packets_received grows
\* only in the step that selects a leader, by at most 1, and not at all in a
\* round whose selected leader is dead, in which no node's energy changes
\* either, or in which no node's sensing succeeded.
C38_OnePacketPerRound ==
    [][(protocol = "PEGASIS") =>
           /\ packets_received' <= packets_received + 1
           /\ packets_received' > packets_received => SelectionStep
           /\ (SelectionStep /\ leader' # None /\ ~alive[leader']) =>
                  packets_received' = packets_received /\ energy' = energy
           /\ (SelectionStep /\ Sensed(log') = {}) =>
                  packets_received' = packets_received]_vars

\* A round after a delivery, in which the selected leader is dead while
\* another node is alive, has ended without a packet.
C38_Witness ==
    /\ protocol = "PEGASIS" /\ pc = "idle" /\ packets_received > 0
    /\ \E k \in 1..Len(calls) :
           /\ calls[k].op = "select_leader" /\ calls[k].round = round_num
           /\ calls[k].leader = leader
    /\ ~alive[leader]
    /\ \E n \in Nodes : alive[n]


\* A step of the protocol's process, not of the collector
ProtocolStep == protocol \in Protocols /\ ~collector_newer'

\* C39: every phase ends: the step of the protocol that runs it reaches a
\* timeout, at which the process waits for a later instant, so that
\* simulated time keeps advancing.
C39_PhaseReachesTimeout ==
    [][ProtocolStep => wake' > now']_vars

=============================================================================
